---- MODULE Spec2Model ----
(***************************************************************************)
(* Telemetry fusion dashboard (src/bin/dashboard.rs): the UDP listener     *)
(* thread that decodes datagrams and merges them into the shared AppState  *)
(* under one Mutex, and the UI thread that reads that state every frame.   *)
(*                                                                         *)
(* Numbers.  The f32 fields are modelled in fixed point: the value v is    *)
(* the integer v * One.  Every raw value on the wire is a whole number and *)
(* an entity receives at most MaxPackets records, so every product         *)
(* alpha * (raw - smoothed) met here is an exact multiple of 4^-MaxPackets *)
(* and the f32 arithmetic of the program is exact on these values.  The    *)
(* finite range of f32 is kept: a result beyond F32_MAX is an infinity,    *)
(* and the infinities and NaN propagate as in IEEE 754.                    *)
(*                                                                         *)
(* Time.  Instant::now() is the variable now, a monotonic clock that may   *)
(* advance between any two steps of any thread.  One unit of now is one    *)
(* tick; the durations of the program are scaled down to ticks, and the    *)
(* trail capacity to a length a short run fills.                           *)
(*                                                                         *)
(* Producers.  wire names the producers of a run, OnWire is the set of     *)
(* datagrams they send, and unsent counts the well-formed records they     *)
(* have yet to send; datagrams that do not decode arrive without limit.    *)
(***************************************************************************)
EXTENDS Integers, Sequences, FiniteSets, TLC

(* ------------------------------ bounds -------------------------------- *)

\* records the producers send in a run where the listener runs alone
MaxPackets == 3

\* records the producers send in a run where the UI draws frames as well
MaxRacing == 1

\* records the producers send in a run checked for progress
MaxFair == 1

\* records the producers send in a run where the user clicks
MaxFrames == 2

\* records the producers send in a fair run where the user clicks
MaxFairFrames == 2

\* last reading of the monotonic clock
MaxTime == 3

\* TRAIL_MAX_POINTS (600 in the source) scaled down to a trail a run can fill
TRAIL_MAX_POINTS == 2

\* TRAIL_MAX_AGE (20 s in the source) in ticks
TRAIL_MAX_AGE == 2

\* the "no packet for >2s" fade threshold (2 s in the source) in ticks
STALE_AFTER == 1

(* ----------------------------- constants ------------------------------ *)

\* thread::sleep(Duration::from_millis(10)) on WouldBlock
WOULDBLOCK_SLEEP_MS == 10

\* thread::sleep(Duration::from_millis(5)) on any other receive error
ERROR_SLEEP_MS == 5

\* dot alpha of a faded and of a live drone
ALPHA_FADED == 80

ALPHA_LIVE == 220

\* fixed-point unit of the f32 values
One == 4 ^ MaxPackets

\* f32::MAX: the largest finite f32, scaled down with the values of the model
F32_MAX == 1024 * 1024 * One

\* the drone ids on the wire
Ids == {1, 2}

(* ------------------------------ the wire ------------------------------ *)

\* a JSON value: k is its kind, n its number (integers as such, floats in
\* units of One), s its string
JInt(n) == [k |-> "int", n |-> n, s |-> ""]

JFloat(n) == [k |-> "float", n |-> n, s |-> ""]

JStr(s) == [k |-> "str", n |-> 0, s |-> s]

\* struct Telemetry
Telemetry(id, x, y, z, battery, status, ts_ms) ==
    [id |-> id, x |-> x, y |-> y, z |-> z, battery |-> battery,
     status |-> status, ts_ms |-> ts_ms]

\* the telemetry values a producer sends (x, y, z, battery as whole numbers)
Samples ==
    { <<0, 0, 10, 100, "OK", 1000>>,
      <<10, 4, 10, 14, "LOW_BAT", 1200>> }

RecordsOf(ids, samples) ==
    { Telemetry(i, s[1] * One, s[2] * One, s[3] * One, s[4] * One, s[5], s[6]) :
        i \in ids, s \in samples }

Records == RecordsOf(Ids, Samples)

\* a finite coordinate at three quarters of f32::MAX, as a whole number
Far == 3 * ((F32_MAX \div One) \div 4)

\* the telemetry values of a producer whose drones are far from the origin
\* on either side of it
FarSamples ==
    { <<Far, 0, 10, 100, "OK", 1000>>,
      <<0 - Far, 0, 10, 100, "OK", 1000>>,
      <<0, 0, 10, 100, "OK", 1000>> }

\* serde_json::to_vec(&Telemetry) of the simulator: the JSON object of a record
ToJson(t) ==
    [f \in {"id", "x", "y", "z", "battery", "status", "ts_ms"} |->
        CASE f = "id" -> JInt(t.id)
          [] f = "x" -> JFloat(t.x)
          [] f = "y" -> JFloat(t.y)
          [] f = "z" -> JFloat(t.z)
          [] f = "battery" -> JFloat(t.battery)
          [] f = "status" -> JStr(t.status)
          [] f = "ts_ms" -> JInt(t.ts_ms)]

\* a datagram: its bytes are valid UTF-8 or not, the text is a JSON object
\* or not, and obj is that object
Datagram(utf8, json, obj) == [utf8 |-> utf8, json |-> json, obj |-> obj]

NoObj == [f \in {} |-> JInt(0)]

Without(obj, f) == [g \in DOMAIN obj \ {f} |-> obj[g]]

With(obj, f, v) == [g \in DOMAIN obj \cup {f} |-> IF g = f THEN v ELSE obj[g]]

SampleRecord == Telemetry(1, 0, 0, 10 * One, 100 * One, "OK", 1000)

\* the datagrams that reach the socket: every record as the simulator sends
\* it, one with an extra field, one with whole-number coordinates, and the
\* non-conforming ones
GoodDatagrams ==
    { Datagram(TRUE, TRUE, ToJson(t)) : t \in Records }
    \cup { Datagram(TRUE, TRUE, With(ToJson(SampleRecord), "extra", JStr("e"))),
           Datagram(TRUE, TRUE, With(ToJson(SampleRecord), "z", JInt(10))) }

BadDatagrams ==
    { Datagram(FALSE, FALSE, NoObj),
      Datagram(TRUE, FALSE, NoObj),
      Datagram(TRUE, TRUE, NoObj),
      Datagram(TRUE, TRUE, With(ToJson(SampleRecord), "id", JStr("1"))),
      Datagram(TRUE, TRUE, With(ToJson(SampleRecord), "id", JInt(-1))),
      Datagram(TRUE, TRUE, With(ToJson(SampleRecord), "id", JFloat(One))),
      Datagram(TRUE, TRUE, With(ToJson(SampleRecord), "x", JStr("0"))),
      Datagram(TRUE, TRUE, With(ToJson(SampleRecord), "status", JInt(0))),
      Datagram(TRUE, TRUE, With(ToJson(SampleRecord), "ts_ms", JInt(-5))) }
    \cup { Datagram(TRUE, TRUE, Without(ToJson(SampleRecord), f)) :
             f \in {"id", "x", "y", "z", "battery", "status", "ts_ms"} }

Datagrams == GoodDatagrams \cup BadDatagrams

\* one sample of the simulator for each drone, and a datagram that is not
\* UTF-8
FewDatagrams ==
    { Datagram(TRUE, TRUE, ToJson(t)) : t \in RecordsOf(Ids, {<<0, 0, 10, 100, "OK", 1000>>}) }
    \cup { Datagram(FALSE, FALSE, NoObj) }

\* the datagrams of producers whose records differ in ts_ms only
TsDatagrams ==
    { Datagram(TRUE, TRUE, ToJson(t)) :
        t \in RecordsOf(Ids, { <<10, 4, 10, 14, "LOW_BAT", ts>> : ts \in {1000, 1200} }) }

\* the datagrams of one drone far from the origin
FarDatagrams == { Datagram(TRUE, TRUE, ToJson(t)) : t \in RecordsOf({1}, FarSamples) }

\* the buffer when no datagram is being handled: what it holds is never read
\* before the next recv_from overwrites it
ZeroBuf == Datagram(TRUE, FALSE, NoObj)

\* serde: a u32 field takes a non-negative JSON integer below 2^32
IsU32(obj, f) ==
    /\ f \in DOMAIN obj
    /\ obj[f].k = "int"
    /\ obj[f].n >= 0
    /\ obj[f].n \div 65536 < 65536

\* serde: a u128 field takes a non-negative JSON integer below 2^128, which
\* every integer of this model is
IsU128(obj, f) ==
    /\ f \in DOMAIN obj
    /\ obj[f].k = "int"
    /\ obj[f].n >= 0

\* serde: an f32 field takes any JSON number
IsFloat(obj, f) == f \in DOMAIN obj /\ obj[f].k \in {"int", "float"}

\* (mutant) a String field that takes a JSON value of any kind
IsString_AnyKind(obj, f) == f \in DOMAIN obj

\* serde: a String field takes a JSON string
IsString(obj, f) == f \in DOMAIN obj /\ obj[f].k = "str"

\* the f32 of a JSON number
AsF32(v) == IF v.k = "int" THEN v.n * One ELSE v.n

\* std::str::from_utf8 followed by serde_json::from_str::<Telemetry>: the
\* set holding the decoded record, empty when either step fails
Decode(d) ==
    IF ~d.utf8 THEN {}
    ELSE IF ~d.json THEN {}
    ELSE IF ~( /\ IsU32(d.obj, "id")
               /\ IsFloat(d.obj, "x")
               /\ IsFloat(d.obj, "y")
               /\ IsFloat(d.obj, "z")
               /\ IsFloat(d.obj, "battery")
               /\ IsString(d.obj, "status")
               /\ IsU128(d.obj, "ts_ms") ) THEN {}
    ELSE { Telemetry(d.obj["id"].n, AsF32(d.obj["x"]), AsF32(d.obj["y"]),
                     AsF32(d.obj["z"]), AsF32(d.obj["battery"]),
                     d.obj["status"].s, d.obj["ts_ms"].n) }

(* ------------------------------ the state ----------------------------- *)

VARIABLES
    now,            \* Instant::now()
    drones,         \* AppState.drones: id -> DroneState
    total_packets,  \* AppState.total_packets
    last_packet_at, \* AppState.last_packet_at: {} is None, {i} is Some(i)
    mutex,          \* holder of the Mutex<AppState>: "free", "listener", "ui"
    lpc,            \* position of the listener thread
    buf,            \* buf[..n], the datagram the listener is handling
    sleep_ms,       \* the sleep the listener is in, in ms
    upc,            \* position of the main (UI) thread
    top,            \* the (drones, total, age_ms) read for the top bar
    snapshot,       \* the Vec<(u32, DroneState)> copied for painting
    todo,           \* entries of the snapshot the paint loop has yet to visit
    painted,        \* id -> (age, dot_alpha) computed by the paint loop
    selected,       \* App.selected: {} is None, {id} is Some(id)
    hud_expanded,   \* App.hud_expanded
    snap,           \* the Option<DroneState> read for the HUD or the sheet
    log,            \* history: the records applied and the points pushed
    unsent,         \* environment: records the producers have yet to send
    wire            \* environment: the producers whose datagrams reach the socket

store == <<drones, total_packets, last_packet_at>>

listener == <<lpc, buf, sleep_ms>>

hud == <<selected, hud_expanded, snap>>

ui == <<upc, top, snapshot, todo, painted, hud>>

vars == <<now, drones, total_packets, last_packet_at, mutex, lpc, buf, sleep_ms,
          upc, top, snapshot, todo, painted, selected, hud_expanded, snap,
          log, unsent, wire>>

NoDrones == [i \in {} |-> 0]

\* the record the listener is applying
T == CHOOSE t \in Decode(buf) : TRUE

\* the map with the entry of id set to d
Put(map, id, d) == [i \in DOMAIN map \cup {id} |-> IF i = id THEN d ELSE map[i]]

\* the datagrams that reach the socket
OnWire ==
    CASE wire = "simulator" -> Datagrams
      [] wire = "far" -> FarDatagrams
      [] wire = "few" -> FewDatagrams
      [] wire = "ts" -> TsDatagrams

\* the state when main starts, with n records to come from the producers w
InitOn(n, w) ==
    /\ unsent = n
    /\ wire = w
    /\ now = 0
    /\ drones = NoDrones
    /\ total_packets = 0
    /\ last_packet_at = {}
    /\ mutex = "free"
    /\ lpc = "unspawned"
    /\ buf = ZeroBuf
    /\ sleep_ms = 0
    /\ upc = "main"
    /\ top = <<0, 0, 0>>
    /\ snapshot = NoDrones
    /\ todo = {}
    /\ painted = NoDrones
    /\ selected = {}
    /\ hud_expanded = FALSE
    /\ snap = {}
    /\ log = <<>>

\* the producers send the records of the simulator
InitWith(n) == InitOn(n, "simulator")

Init == InitWith(MaxRacing)

InitListener == InitWith(MaxPackets)

InitFair == InitWith(MaxFair)

\* the clock advances
Tick ==
    /\ now < MaxTime
    /\ now' = now + 1
    /\ UNCHANGED <<store, mutex, listener, ui, log, unsent, wire>>

(* --------------------------- listener thread --------------------------- *)

\* struct DroneState
DroneState(x, y, z, battery, status, last_ts_ms, last_seen, sx, sy, trail) ==
    [x |-> x, y |-> y, z |-> z, battery |-> battery, status |-> status,
     last_ts_ms |-> last_ts_ms, last_seen |-> last_seen,
     smoothed_x |-> sx, smoothed_y |-> sy, trail |-> trail]

\* f32::INFINITY, f32::NEG_INFINITY and f32::NAN: three values outside the
\* finite range
POS_INF == F32_MAX + 1

NEG_INF == 0 - POS_INF

NAN == F32_MAX + 2

\* f32::is_finite
IsFinite(v) == 0 - F32_MAX <= v /\ v <= F32_MAX

\* the f32 of an exact result r: a result beyond the finite range is infinite
F32(r) ==
    IF r > F32_MAX THEN POS_INF
    ELSE IF r < 0 - F32_MAX THEN NEG_INF
    ELSE r

\* a + b in f32
FAdd(a, b) ==
    IF a = NAN \/ b = NAN THEN NAN
    ELSE IF IsFinite(a) /\ IsFinite(b) THEN F32(a + b)
    ELSE IF IsFinite(a) THEN b
    ELSE IF IsFinite(b) THEN a
    ELSE IF a = b THEN a
    ELSE NAN

\* -a in f32
FNeg(a) == IF a = NAN THEN NAN ELSE 0 - a

\* a - b in f32
FSub(a, b) == FAdd(a, FNeg(b))

\* (mutant) alpha = 0.5
AlphaTimes_Half(d) == d \div 2

\* alpha * d with alpha = 0.25_f32
AlphaTimes(d) == IF IsFinite(d) THEN d \div 4 ELSE d

\* one EMA step: smoothed + alpha * (raw - smoothed)
Ema(smoothed, raw) == FAdd(smoothed, AlphaTimes(FSub(raw, smoothed)))

\* when.elapsed()
Elapsed(when) == now - when

\* the steps between shared.lock() and the release of the guard
UpdatePcs ==
    {"entry", "raw_pos", "raw_rest", "ema", "push", "prune_size", "prune_age",
     "count"}

\* the steps of the receive loop
LoopPcs == {"recv", "decode", "lock", "sleep_wouldblock", "sleep_error"} \cup UpdatePcs

\* UdpSocket::bind(&bind).expect(..): a failure panics the listener thread
L_bind ==
    /\ lpc = "bind"
    /\ \E ok \in BOOLEAN : lpc' = IF ok THEN "nonblock" ELSE "panicked_bind"
    /\ UNCHANGED <<now, store, mutex, buf, sleep_ms, ui, log, unsent, wire>>

\* socket.set_nonblocking(true).expect(..)
L_nonblock ==
    /\ lpc = "nonblock"
    /\ \E ok \in BOOLEAN : lpc' = IF ok THEN "recv" ELSE "panicked_nonblock"
    /\ UNCHANGED <<now, store, mutex, buf, sleep_ms, ui, log, unsent, wire>>

\* recv_from returns Ok((n, addr)): a datagram is in buf[..n]
L_recv_ok ==
    /\ lpc = "recv"
    /\ \E d \in OnWire :
          /\ Decode(d) # {} => unsent > 0
          /\ unsent' = IF Decode(d) # {} THEN unsent - 1 ELSE unsent
          /\ buf' = d
    /\ lpc' = "decode"
    /\ UNCHANGED <<now, store, mutex, sleep_ms, ui, log, wire>>

\* recv_from returns Err of kind WouldBlock
L_recv_wouldblock ==
    /\ lpc = "recv"
    /\ lpc' = "sleep_wouldblock"
    /\ sleep_ms' = WOULDBLOCK_SLEEP_MS
    /\ UNCHANGED <<now, store, mutex, buf, ui, log, unsent, wire>>

\* (mutant) a receive error ends the loop
L_recv_err_Exit ==
    /\ lpc = "recv"
    /\ lpc' = "exited"
    /\ UNCHANGED <<now, store, mutex, buf, sleep_ms, ui, log, unsent, wire>>

\* recv_from returns any other Err
L_recv_err ==
    /\ lpc = "recv"
    /\ lpc' = "sleep_error"
    /\ sleep_ms' = ERROR_SLEEP_MS
    /\ UNCHANGED <<now, store, mutex, buf, ui, log, unsent, wire>>

\* thread::sleep returns and the loop takes its next turn
L_wake ==
    /\ lpc \in {"sleep_wouldblock", "sleep_error"}
    /\ lpc' = "recv"
    /\ sleep_ms' = 0
    /\ UNCHANGED <<now, store, mutex, buf, ui, log, unsent, wire>>

\* the two `if let Ok(..)`: a datagram that does not decode is dropped, and
\* the match arm ends
L_decode ==
    /\ lpc = "decode"
    /\ IF Decode(buf) = {}
       THEN lpc' = "recv" /\ buf' = ZeroBuf
       ELSE lpc' = "lock" /\ buf' = buf
    /\ UNCHANGED <<now, store, mutex, sleep_ms, ui, log, unsent, wire>>

\* (mutant) the update runs without taking the mutex
L_lock_NoMutex ==
    /\ lpc = "lock"
    /\ lpc' = "entry"
    /\ UNCHANGED <<now, store, mutex, buf, sleep_ms, ui, log, unsent, wire>>

\* let mut guard = shared.lock().unwrap()
L_lock ==
    /\ lpc = "lock"
    /\ mutex = "free"
    /\ mutex' = "listener"
    /\ lpc' = "entry"
    /\ UNCHANGED <<now, store, buf, sleep_ms, ui, log, unsent, wire>>

\* (mutant) a new drone replaces the map instead of joining it
L_entry_Replace ==
    /\ lpc = "entry"
    /\ drones' =
          IF T.id \in DOMAIN drones THEN drones
          ELSE Put(NoDrones, T.id,
                   DroneState(T.x, T.y, T.z, T.battery, T.status, T.ts_ms, now,
                              T.x, T.y, <<>>))
    /\ lpc' = "raw_pos"
    /\ UNCHANGED <<now, total_packets, last_packet_at, mutex, buf, sleep_ms, ui, log, unsent, wire>>

\* guard.drones.entry(t.id).or_insert(DroneState {..})
L_entry ==
    /\ lpc = "entry"
    /\ drones' =
          IF T.id \in DOMAIN drones THEN drones
          ELSE Put(drones, T.id,
                   DroneState(T.x, T.y, T.z, T.battery, T.status, T.ts_ms, now,
                              T.x, T.y, <<>>))
    /\ lpc' = "raw_pos"
    /\ UNCHANGED <<now, total_packets, last_packet_at, mutex, buf, sleep_ms, ui, log, unsent, wire>>

\* (mutant) the position of the record is written to every entity
L_raw_pos_All ==
    /\ lpc = "raw_pos"
    /\ drones' = [i \in DOMAIN drones |->
                    [drones[i] EXCEPT !.x = T.x, !.y = T.y, !.z = T.z]]
    /\ lpc' = "raw_rest"
    /\ UNCHANGED <<now, total_packets, last_packet_at, mutex, buf, sleep_ms, ui, log, unsent, wire>>

\* entry.x = t.x; entry.y = t.y; entry.z = t.z
L_raw_pos ==
    /\ lpc = "raw_pos"
    /\ drones' = [drones EXCEPT ![T.id].x = T.x, ![T.id].y = T.y, ![T.id].z = T.z]
    /\ lpc' = "raw_rest"
    /\ UNCHANGED <<now, total_packets, last_packet_at, mutex, buf, sleep_ms, ui, log, unsent, wire>>

\* (mutant) last_seen is taken from the producer's timestamp
L_raw_rest_TsClock ==
    /\ lpc = "raw_rest"
    /\ drones' = [drones EXCEPT ![T.id].battery = T.battery,
                                ![T.id].status = T.status,
                                ![T.id].last_ts_ms = T.ts_ms,
                                ![T.id].last_seen = T.ts_ms]
    /\ lpc' = "ema"
    /\ UNCHANGED <<now, total_packets, last_packet_at, mutex, buf, sleep_ms, ui, log, unsent, wire>>

\* entry.battery, entry.status, entry.last_ts_ms, entry.last_seen = Instant::now()
L_raw_rest ==
    /\ lpc = "raw_rest"
    /\ drones' = [drones EXCEPT ![T.id].battery = T.battery,
                                ![T.id].status = T.status,
                                ![T.id].last_ts_ms = T.ts_ms,
                                ![T.id].last_seen = now]
    /\ lpc' = "ema"
    /\ UNCHANGED <<now, total_packets, last_packet_at, mutex, buf, sleep_ms, ui, log, unsent, wire>>

\* EMA smoothing of smoothed_x and smoothed_y
L_ema ==
    /\ lpc = "ema"
    /\ drones' = [drones EXCEPT
          ![T.id].smoothed_x = Ema(drones[T.id].smoothed_x, drones[T.id].x),
          ![T.id].smoothed_y = Ema(drones[T.id].smoothed_y, drones[T.id].y)]
    /\ lpc' = "push"
    /\ UNCHANGED <<now, total_packets, last_packet_at, mutex, buf, sleep_ms, ui, log, unsent, wire>>

\* (mutant) the trail point carries the producer's timestamp
L_push_TsPoint ==
    /\ lpc = "push"
    /\ LET pt == <<drones[T.id].smoothed_x, drones[T.id].smoothed_y, T.ts_ms>>
       IN /\ drones' = [drones EXCEPT ![T.id].trail = Append(@, pt)]
          /\ log' = Append(log, [t |-> T, pt |-> pt])
    /\ lpc' = "prune_size"
    /\ UNCHANGED <<now, total_packets, last_packet_at, mutex, buf, sleep_ms, ui, unsent, wire>>

\* (mutant) the point is pushed at the head of the trail
L_push_Front ==
    /\ lpc = "push"
    /\ LET pt == <<drones[T.id].smoothed_x, drones[T.id].smoothed_y, now>>
       IN /\ drones' = [drones EXCEPT ![T.id].trail = <<pt>> \o @]
          /\ log' = Append(log, [t |-> T, pt |-> pt])
    /\ lpc' = "prune_size"
    /\ UNCHANGED <<now, total_packets, last_packet_at, mutex, buf, sleep_ms, ui, unsent, wire>>

\* entry.trail.push_back((smoothed_x, smoothed_y, Instant::now()))
L_push ==
    /\ lpc = "push"
    /\ LET pt == <<drones[T.id].smoothed_x, drones[T.id].smoothed_y, now>>
       IN /\ drones' = [drones EXCEPT ![T.id].trail = Append(@, pt)]
          /\ log' = Append(log, [t |-> T, pt |-> pt])
    /\ lpc' = "prune_size"
    /\ UNCHANGED <<now, total_packets, last_packet_at, mutex, buf, sleep_ms, ui, unsent, wire>>

\* (mutant) the size loop pops the newest point
L_prune_size_PopBack ==
    /\ lpc = "prune_size"
    /\ IF Len(drones[T.id].trail) > TRAIL_MAX_POINTS
       THEN /\ drones' = [drones EXCEPT ![T.id].trail = SubSeq(@, 1, Len(@) - 1)]
            /\ lpc' = "prune_size"
       ELSE /\ drones' = drones
            /\ lpc' = "prune_age"
    /\ UNCHANGED <<now, total_packets, last_packet_at, mutex, buf, sleep_ms, ui, log, unsent, wire>>

\* while entry.trail.len() > TRAIL_MAX_POINTS { pop_front }: one test of the loop
L_prune_size ==
    /\ lpc = "prune_size"
    /\ IF Len(drones[T.id].trail) > TRAIL_MAX_POINTS
       THEN /\ drones' = [drones EXCEPT ![T.id].trail = Tail(@)]
            /\ lpc' = "prune_size"
       ELSE /\ drones' = drones
            /\ lpc' = "prune_age"
    /\ UNCHANGED <<now, total_packets, last_packet_at, mutex, buf, sleep_ms, ui, log, unsent, wire>>

\* (mutant) the age loop is missing
L_prune_age_Never ==
    /\ lpc = "prune_age"
    /\ lpc' = "count"
    /\ UNCHANGED <<now, store, mutex, buf, sleep_ms, ui, log, unsent, wire>>

\* while let Some(front) { if when.elapsed() > TRAIL_MAX_AGE { pop_front }
\* else break }: one test of the loop
L_prune_age ==
    /\ lpc = "prune_age"
    /\ IF /\ drones[T.id].trail # <<>>
          /\ Elapsed(Head(drones[T.id].trail)[3]) > TRAIL_MAX_AGE
       THEN /\ drones' = [drones EXCEPT ![T.id].trail = Tail(@)]
            /\ lpc' = "prune_age"
       ELSE /\ drones' = drones
            /\ lpc' = "count"
    /\ UNCHANGED <<now, total_packets, last_packet_at, mutex, buf, sleep_ms, ui, log, unsent, wire>>

\* (mutant) the counter follows the number of drones
L_count_Entities ==
    /\ lpc = "count"
    /\ total_packets' = Cardinality(DOMAIN drones)
    /\ last_packet_at' = {now}
    /\ mutex' = "free"
    /\ lpc' = "recv"
    /\ buf' = ZeroBuf
    /\ UNCHANGED <<now, drones, sleep_ms, ui, log, unsent, wire>>

\* (mutant) the listener keeps its guard when the update is over
L_count_KeepGuard ==
    /\ lpc = "count"
    /\ total_packets' = total_packets + 1
    /\ last_packet_at' = {now}
    /\ lpc' = "recv"
    /\ buf' = ZeroBuf
    /\ UNCHANGED <<now, drones, mutex, sleep_ms, ui, log, unsent, wire>>

\* guard.total_packets += 1; guard.last_packet_at = Some(Instant::now()); the
\* match arm ends and with it the datagram, and the
\* guard goes out of scope
L_count ==
    /\ lpc = "count"
    /\ total_packets' = total_packets + 1
    /\ last_packet_at' = {now}
    /\ mutex' = "free"
    /\ lpc' = "recv"
    /\ buf' = ZeroBuf
    /\ UNCHANGED <<now, drones, sleep_ms, ui, log, unsent, wire>>

Listener ==
    \/ L_bind \/ L_nonblock
    \/ L_recv_ok \/ L_recv_wouldblock \/ L_recv_err \/ L_wake
    \/ L_decode \/ L_lock
    \/ L_entry \/ L_raw_pos \/ L_raw_rest \/ L_ema \/ L_push
    \/ L_prune_size \/ L_prune_age \/ L_count

(* ------------------------------ UI thread ------------------------------ *)

\* main: spawn_udp_listener(..) starts the listener thread and returns
U_spawn ==
    /\ upc = "main"
    /\ lpc = "unspawned"
    /\ lpc' = "bind"
    /\ upc' = "run_native"
    /\ UNCHANGED <<now, store, mutex, buf, sleep_ms, top, snapshot, todo, painted, hud, log, unsent, wire>>

\* main: eframe::run_native(..) starts calling App::update once per frame
U_run ==
    /\ upc = "run_native"
    /\ upc' = "top"
    /\ UNCHANGED <<now, store, mutex, listener, top, snapshot, todo, painted, hud, log, unsent, wire>>

\* (mutant) the top bar reads the state without taking the lock
U_top_lock_NoMutex ==
    /\ upc = "top"
    /\ upc' = "top_locked"
    /\ UNCHANGED <<now, store, mutex, listener, top, snapshot, todo, painted, hud, log, unsent, wire>>

\* top bar: let guard = self.state.lock().unwrap()
U_top_lock ==
    /\ upc = "top"
    /\ mutex = "free"
    /\ mutex' = "ui"
    /\ upc' = "top_locked"
    /\ UNCHANGED <<now, store, listener, top, snapshot, todo, painted, hud, log, unsent, wire>>

\* top bar: (drones.len(), total_packets, last_packet_at elapsed or 0)
U_top_read ==
    /\ upc = "top_locked"
    /\ top' = <<Cardinality(DOMAIN drones), total_packets,
                IF last_packet_at = {} THEN 0
                ELSE Elapsed(CHOOSE i \in last_packet_at : TRUE)>>
    /\ mutex' = "free"
    /\ upc' = "snap"
    /\ UNCHANGED <<now, store, listener, snapshot, todo, painted, hud, log, unsent, wire>>

\* (mutant) the snapshot is copied without taking the lock
U_snap_lock_NoMutex ==
    /\ upc = "snap"
    /\ upc' = "snap_locked"
    /\ UNCHANGED <<now, store, mutex, listener, top, snapshot, todo, painted, hud, log, unsent, wire>>

\* snapshot: let guard = self.state.lock().unwrap()
U_snap_lock ==
    /\ upc = "snap"
    /\ mutex = "free"
    /\ mutex' = "ui"
    /\ upc' = "snap_locked"
    /\ UNCHANGED <<now, store, listener, top, snapshot, todo, painted, hud, log, unsent, wire>>

\* (mutant) the snapshot takes the map out of the store instead of cloning it
U_snap_copy_Take ==
    /\ upc = "snap_locked"
    /\ snapshot' = drones
    /\ drones' = NoDrones
    /\ todo' = DOMAIN drones
    /\ painted' = NoDrones
    /\ mutex' = "free"
    /\ upc' = "paint"
    /\ UNCHANGED <<now, total_packets, last_packet_at, listener, top, hud, log, unsent, wire>>

\* (mutant) the paint loop reads the map through the guard, which is kept
U_snap_copy_KeepGuard ==
    /\ upc = "snap_locked"
    /\ snapshot' = drones
    /\ todo' = DOMAIN drones
    /\ painted' = NoDrones
    /\ upc' = "paint"
    /\ UNCHANGED <<now, store, mutex, listener, top, hud, log, unsent, wire>>

\* snapshot: guard.drones.iter().map(|(k, v)| (*k, v.clone())).collect()
U_snap_copy ==
    /\ upc = "snap_locked"
    /\ snapshot' = drones
    /\ todo' = DOMAIN drones
    /\ painted' = NoDrones
    /\ mutex' = "free"
    /\ upc' = "paint"
    /\ UNCHANGED <<now, store, listener, top, hud, log, unsent, wire>>

\* (mutant) the fade starts at the threshold
DotAlpha_AtOrAbove(age) == IF age >= STALE_AFTER THEN ALPHA_FADED ELSE ALPHA_LIVE

\* dot_alpha of a drone last seen `age` ago: faded if no packet for >2s
DotAlpha(age) == IF age > STALE_AFTER THEN ALPHA_FADED ELSE ALPHA_LIVE

\* for (id, d) in snapshot.iter(): one turn of the paint loop
U_paint ==
    /\ upc = "paint"
    /\ \E id \in todo :
          LET age == Elapsed(snapshot[id].last_seen)
          IN /\ painted' = Put(painted, id, [age |-> age, dot_alpha |-> DotAlpha(age)])
             /\ todo' = todo \ {id}
    /\ UNCHANGED <<now, store, mutex, listener, upc, top, snapshot, hud, log, unsent, wire>>

\* the drone the HUD and the sheet are about
Sel == CHOOSE id \in selected : TRUE

\* guard.drones.get(&id).cloned()
GetCloned(map, id) == IF id \in DOMAIN map THEN {map[id]} ELSE {}

\* where update goes after the canvas: into the sheet if it is open
AfterCanvas(expanded) == IF expanded THEN "sheet" ELSE "frame_done"

\* click handling once the paint loop is over: a click near a painted drone
\* selects it, a click elsewhere clears the selection, no click keeps it; the
\* HUD follows if the selected drone is on the canvas
U_click ==
    /\ upc = "paint"
    /\ todo = {}
    /\ \E hit \in {selected, {}} \cup { {id} : id \in DOMAIN snapshot } :
          /\ selected' = hit
          /\ upc' = IF hit # {} /\ hit \subseteq DOMAIN snapshot THEN "hud"
                    ELSE AfterCanvas(hud_expanded)
    /\ UNCHANGED <<now, store, mutex, listener, top, snapshot, todo, painted,
                   hud_expanded, snap, log, unsent, wire>>

\* HUD: let guard = self.state.lock().unwrap()
U_hud_lock ==
    /\ upc = "hud"
    /\ mutex = "free"
    /\ mutex' = "ui"
    /\ upc' = "hud_locked"
    /\ UNCHANGED <<now, store, listener, top, snapshot, todo, painted, hud, log, unsent, wire>>

\* HUD: guard.drones.get(&sel).cloned(), and the guard goes out of scope
U_hud_read ==
    /\ upc = "hud_locked"
    /\ snap' = GetCloned(drones, Sel)
    /\ mutex' = "free"
    /\ upc' = "hud_draw"
    /\ UNCHANGED <<now, store, listener, top, snapshot, todo, painted,
                   selected, hud_expanded, log, unsent, wire>>

\* HUD: the card is drawn from snap; its close button clears the selection
\* and its Expand button opens the sheet
U_hud_draw ==
    /\ upc = "hud_draw"
    /\ \E close \in BOOLEAN, expand \in BOOLEAN :
          /\ snap = {} => ~close /\ ~expand
          /\ selected' = IF close THEN {} ELSE selected
          /\ hud_expanded' = (hud_expanded \/ expand)
          /\ upc' = AfterCanvas(hud_expanded \/ expand)
    /\ snap' = {}
    /\ UNCHANGED <<now, store, mutex, listener, top, snapshot, todo, painted,
                   log, unsent, wire>>

\* sheet: let guard = self.state.lock().unwrap()
U_sheet_lock ==
    /\ upc = "sheet"
    /\ selected # {}
    /\ mutex = "free"
    /\ mutex' = "ui"
    /\ upc' = "sheet_locked"
    /\ UNCHANGED <<now, store, listener, top, snapshot, todo, painted, hud, log, unsent, wire>>

\* sheet: guard.drones.get(&id).cloned(), and the guard goes out of scope
U_sheet_read ==
    /\ upc = "sheet_locked"
    /\ snap' = GetCloned(drones, Sel)
    /\ mutex' = "free"
    /\ upc' = "sheet_draw"
    /\ UNCHANGED <<now, store, listener, top, snapshot, todo, painted,
                   selected, hud_expanded, log, unsent, wire>>

\* sheet: the sheet is drawn, from snap if a drone is selected, and
\* self.hud_expanded = open, which its Close button has set to false
U_sheet_draw ==
    /\ upc = "sheet_draw" \/ (upc = "sheet" /\ selected = {})
    /\ \E open \in BOOLEAN : hud_expanded' = open
    /\ snap' = {}
    /\ upc' = "frame_done"
    /\ UNCHANGED <<now, store, mutex, listener, top, snapshot, todo, painted,
                   selected, log, unsent, wire>>

\* update returns and the frame ends: its locals are dropped.  With no
\* click, nothing selected and the sheet closed, update returns as soon as the
\* paint loop is over
U_frame_end ==
    /\ \/ upc = "frame_done"
       \/ upc = "paint" /\ todo = {} /\ selected = {} /\ ~hud_expanded
    /\ upc' = "top"
    /\ top' = <<0, 0, 0>>
    /\ snapshot' = NoDrones
    /\ painted' = NoDrones
    /\ UNCHANGED <<now, store, mutex, listener, todo, hud, log, unsent, wire>>

Ui ==
    \/ U_spawn \/ U_run
    \/ U_top_lock \/ U_top_read
    \/ U_snap_lock \/ U_snap_copy
    \/ U_paint \/ U_frame_end

\* the clicks of the user and what they open
Hud ==
    \/ U_click
    \/ U_hud_lock \/ U_hud_read \/ U_hud_draw
    \/ U_sheet_lock \/ U_sheet_read \/ U_sheet_draw

Next == Tick \/ Listener \/ Ui

\* both threads and the clock, with a user who watches without clicking
Spec == Init /\ [][Next]_vars

\* the listener thread and the clock, before the UI draws its first frame
NextListener == Tick \/ Listener \/ U_spawn

SpecListener == InitListener /\ [][NextListener]_vars

\* both threads with the clock standing still.  The listener thread is
\* scheduled, the UI thread releases the mutex it holds, and the listener
\* gets the mutex although the UI takes it again every frame: the UI holds
\* it for two short copies per frame and paints in between.
NextFair == Listener \/ Ui

FairSpec ==
    /\ InitFair
    /\ [][NextFair]_vars
    /\ WF_vars(Listener)
    /\ SF_vars(L_lock)
    /\ WF_vars(U_top_read \/ U_snap_copy)

\* both threads and a user who clicks, with the clock standing still
InitFrames == InitWith(MaxFrames)

NextFrames == Listener \/ Ui \/ Hud

SpecFrames == InitFrames /\ [][NextFrames]_vars

\* the same with few datagrams on the wire, and fair: both threads are scheduled, a thread that
\* holds the mutex goes on to release it, and a thread that asks for the
\* mutex gets it, since the other one holds it for one update or one copy
\* and then does something else
InitFairFrames == InitOn(MaxFairFrames, "few")

FairFrames ==
    /\ InitFairFrames
    /\ [][NextFrames]_vars
    /\ WF_vars(Listener)
    /\ SF_vars(L_lock)
    /\ WF_vars(U_top_read \/ U_snap_copy \/ U_hud_read \/ U_sheet_read)
    /\ SF_vars(U_top_lock \/ U_snap_lock \/ U_hud_lock \/ U_sheet_lock)

\* the listener thread and the clock, fed records that differ in ts_ms only
InitTs == InitOn(MaxPackets, "ts")

SpecTs == InitTs /\ [][NextListener]_vars

\* the listener alone with the clock standing still, fed by one drone far
\* from the origin
InitFar == InitOn(MaxPackets, "far")

NextFar == Listener \/ U_spawn

SpecFar == InitFar /\ [][NextFar]_vars

(* ------------------------- history of the run -------------------------- *)

RECURSIVE PointsUpTo(_, _)
\* the points pushed for id by the first i records of the log, in order
PointsUpTo(id, i) ==
    IF i = 0 THEN <<>>
    ELSE IF log[i].t.id = id THEN Append(PointsUpTo(id, i - 1), log[i].pt)
    ELSE PointsUpTo(id, i - 1)

RECURSIVE RecordsUpTo(_, _)
\* the records applied for id among the first i records of the log, in order
RecordsUpTo(id, i) ==
    IF i = 0 THEN <<>>
    ELSE IF log[i].t.id = id THEN Append(RecordsUpTo(id, i - 1), log[i].t)
    ELSE RecordsUpTo(id, i - 1)

\* the ids received so far
IdsReceived == { log[i].t.id : i \in 1 .. Len(log) }

\* s is what is left of full after dropping points from its head
IsSuffix(s, full) ==
    /\ Len(s) <= Len(full)
    /\ s = SubSeq(full, Len(full) - Len(s) + 1, Len(full))

\* the listener is between two updates
Quiet == lpc \notin UpdatePcs

(* -------------------------------- C1 ----------------------------------- *)

\* d is the state the completed update for record i of the log left of drone
\* id: raw fields of that record, smoothed position of the point that update
\* pushed, a trail that is a suffix of the points pushed up to it, and a
\* last_seen read between the previous push for id and that push
CompletedAs(d, id, i) ==
    /\ log[i].t.id = id
    /\ d.x = log[i].t.x
    /\ d.y = log[i].t.y
    /\ d.z = log[i].t.z
    /\ d.battery = log[i].t.battery
    /\ d.status = log[i].t.status
    /\ d.last_ts_ms = log[i].t.ts_ms
    /\ d.smoothed_x = log[i].pt[1]
    /\ d.smoothed_y = log[i].pt[2]
    /\ d.last_seen <= log[i].pt[3]
    /\ \A j \in 1 .. i - 1 : log[j].t.id = id => log[j].pt[3] <= d.last_seen
    /\ IsSuffix(d.trail, PointsUpTo(id, i))
    /\ Len(d.trail) <= TRAIL_MAX_POINTS

C2_TrailBounds ==
    [][ (lpc = "prune_age" /\ lpc' = "count") =>
            LET trail == drones'[T.id].trail
            IN /\ Len(trail) <= TRAIL_MAX_POINTS
               /\ trail # <<>> => now' - Head(trail)[3] <= TRAIL_MAX_AGE ]_vars

\* an update that dropped a point for the size and another for its age
C2_Witness ==
    /\ lpc = "count"
    /\ Len(PointsUpTo(T.id, Len(log))) = TRAIL_MAX_POINTS + 1
    /\ Len(drones[T.id].trail) = TRAIL_MAX_POINTS - 1

(* -------------------------------- C3 ----------------------------------- *)

\* C3: between updates the store holds one drone for each id received so far
\* and no other, and no step ever removes a drone
C3_OneEntityPerId ==
    /\ [](Quiet => DOMAIN drones = IdsReceived)
    /\ [][DOMAIN drones \subseteq DOMAIN drones']_vars

\* two records for one id and one for the other: two drones
C3_Witness ==
    /\ Quiet
    /\ Len(log) = 3
    /\ Cardinality(DOMAIN drones) = 2
    /\ \E id \in DOMAIN drones : Len(RecordsUpTo(id, Len(log))) = 2

(* -------------------------------- C4 ----------------------------------- *)

\* the JSON value of field f is a number
ClaimNumber(obj, f) == f \in DOMAIN obj /\ obj[f].k \in {"int", "float"}

\* the JSON value of field f is an unsigned integer
ClaimUnsigned(obj, f) == f \in DOMAIN obj /\ obj[f].k = "int" /\ obj[f].n >= 0

\* the datagram is valid UTF-8, a well-formed structure, and holds the seven
\* required fields with their types
Conforming(d) ==
    /\ d.utf8
    /\ d.json
    /\ ClaimUnsigned(d.obj, "id")
    /\ \A f \in {"x", "y", "z", "battery"} : ClaimNumber(d.obj, f)
    /\ "status" \in DOMAIN d.obj /\ d.obj["status"].k = "str"
    /\ ClaimUnsigned(d.obj, "ts_ms")

\* C4: while a non-conforming datagram is being handled the store (drones,
\* total_packets, last_packet_at) does not change, and the listener goes back
\* to receiving
C4_MalformedDropped ==
    [][ (lpc = "decode" /\ ~Conforming(buf)) =>
            /\ store' = store
            /\ lpc' \in {"decode", "recv"} ]_vars

\* scenario D: one record applied, then a non-conforming datagram arrives
C4_Witness ==
    /\ lpc = "decode"
    /\ ~Conforming(buf)
    /\ Cardinality(DOMAIN drones) = 1
    /\ total_packets = 1

(* -------------------------------- C5 ----------------------------------- *)

\* C5: between updates total_packets is the number of records applied; it
\* changes only by one, in a step of the listener holding the mutex; and
\* last_packet_at is None exactly when total_packets is 0
C5_PacketCounter ==
    /\ [](Quiet => total_packets = Len(log))
    /\ []((last_packet_at = {}) <=> (total_packets = 0))
    /\ [][total_packets' # total_packets =>
             /\ mutex = "listener"
             /\ lpc \in UpdatePcs
             /\ total_packets' = total_packets + 1]_vars

\* scenario C in small: records for two ids interleaved, the same sample twice
C5_Witness ==
    /\ Quiet
    /\ total_packets = MaxPackets
    /\ Cardinality(DOMAIN drones) = 2
    /\ log[1].t.id # log[2].t.id
    /\ log[1].t.x = log[3].t.x
    /\ log[1].t.id = log[3].t.id

(* -------------------------------- C6 ----------------------------------- *)

RECURSIVE SmoothedAfter(_)
\* the smoothed value the rule gives after the raw values rs: the first raw
\* value, then smoothed + (raw - smoothed) / 4 for each later one
SmoothedAfter(rs) ==
    IF Len(rs) = 1 THEN rs[1]
    ELSE LET before == SmoothedAfter(SubSeq(rs, 1, Len(rs) - 1))
         IN before + (rs[Len(rs)] - before) \div 4

\* the raw x values and the raw y values of a sequence of records
XsOf(ts) == [k \in 1 .. Len(ts) |-> ts[k].x]

YsOf(ts) == [k \in 1 .. Len(ts) |-> ts[k].y]

\* C6: between updates the smoothed position of a drone is what the smoothing
\* rule gives for the records received for it, and z, battery and status are
\* those of its last record; x = 0 then x = 10 gives smoothed_x = 2.5
C6_SmoothingRule ==
    Quiet =>
        \A id \in DOMAIN drones :
            LET ts == RecordsUpTo(id, Len(log))
                d == drones[id]
            IN /\ d.smoothed_x = SmoothedAfter(XsOf(ts))
               /\ d.smoothed_y = SmoothedAfter(YsOf(ts))
               /\ d.z = ts[Len(ts)].z
               /\ d.battery = ts[Len(ts)].battery
               /\ d.status = ts[Len(ts)].status
               /\ XsOf(ts) = <<0, 10 * One>> => 2 * d.smoothed_x = 5 * One

\* scenario A: x = 0 then x = 10 for one id
C6_Witness ==
    /\ Quiet
    /\ \E id \in DOMAIN drones :
          /\ XsOf(RecordsUpTo(id, Len(log))) = <<0, 10 * One>>
          /\ 2 * drones[id].smoothed_x = 5 * One
          /\ drones[id].battery = 14 * One

(* -------------------------------- C7 ----------------------------------- *)

\* C7: between updates, a drone that received more than TRAIL_MAX_POINTS
\* records, the first of them no longer than TRAIL_MAX_AGE ago, keeps exactly
\* the points of its last TRAIL_MAX_POINTS records, in arrival order
C7_KeepsNewest ==
    Quiet =>
        \A id \in DOMAIN drones :
            LET pts == PointsUpTo(id, Len(log))
            IN (Len(pts) > TRAIL_MAX_POINTS /\ now - pts[1][3] <= TRAIL_MAX_AGE) =>
                  drones[id].trail =
                      SubSeq(pts, Len(pts) - TRAIL_MAX_POINTS + 1, Len(pts))

\* scenario B in small: one more record than TRAIL_MAX_POINTS, all recent
C7_Witness ==
    /\ Quiet
    /\ \E id \in DOMAIN drones :
          LET pts == PointsUpTo(id, Len(log))
          IN /\ Len(pts) = TRAIL_MAX_POINTS + 1
             /\ now - pts[1][3] <= TRAIL_MAX_AGE
             /\ pts[1][3] < pts[2][3]
             /\ Len(drones[id].trail) = TRAIL_MAX_POINTS
             /\ Head(drones[id].trail) = pts[2]

(* -------------------------------- C8 ----------------------------------- *)

\* C8 as stated: a drone is drawn stale when its age is at or above the
\* threshold and fresh below it
C8_StaleAtThreshold ==
    \A id \in DOMAIN painted :
        painted[id].dot_alpha =
            IF painted[id].age >= STALE_AFTER THEN ALPHA_FADED ELSE ALPHA_LIVE

\* C8 amended: a drone is drawn stale only when its age is above the
\* threshold; at the threshold and below it is drawn fresh.  The age is taken
\* from the snapshot's last_seen when the drone is painted.
C8_StaleAboveThreshold ==
    \A id \in DOMAIN painted :
        /\ painted[id].age <= now - snapshot[id].last_seen
        /\ painted[id].age >= 0
        /\ painted[id].age > STALE_AFTER => painted[id].dot_alpha = ALPHA_FADED
        /\ painted[id].age <= STALE_AFTER => painted[id].dot_alpha = ALPHA_LIVE

\* a drone painted at exactly the threshold, drawn fresh
C8_Witness ==
    \E id \in DOMAIN painted :
        /\ painted[id].age = STALE_AFTER
        /\ painted[id].dot_alpha = ALPHA_LIVE

(* -------------------------------- C9 ----------------------------------- *)

\* C9: no frame is drawn in a process whose listener failed to bind
C9_BindFailureAborts ==
    lpc = "panicked_bind" => upc \in {"main", "run_native"}

(* -------------------------------- C10 ---------------------------------- *)

\* C10: once in its loop the listener never leaves it; it sleeps
\* WOULDBLOCK_SLEEP_MS on WouldBlock and a shorter time on any other error;
\* and after every outcome it comes back to recv_from
C10_ListenerNeverStops ==
    /\ [][(lpc \in LoopPcs) => (lpc' \in LoopPcs)]_vars
    /\ [](lpc = "sleep_wouldblock" => sleep_ms = WOULDBLOCK_SLEEP_MS)
    /\ [](lpc = "sleep_error" => (0 < sleep_ms /\ sleep_ms < WOULDBLOCK_SLEEP_MS))
    /\ (lpc \in LoopPcs) ~> (lpc = "recv")
    /\ (lpc = "decode") ~> (lpc = "recv")
    /\ (lpc = "sleep_error") ~> (lpc = "recv")
    /\ (lpc = "sleep_wouldblock") ~> (lpc = "recv")

\* the listener asleep after a receive error, with a record already applied
C10_Witness ==
    /\ lpc = "sleep_error"
    /\ sleep_ms = ERROR_SLEEP_MS
    /\ total_packets = 1

(* -------------------------------- C11 ---------------------------------- *)

\* the frame has taken its snapshot
SnapshotTaken ==
    upc \in {"paint", "hud", "hud_locked", "hud_draw",
             "sheet", "sheet_locked", "sheet_draw", "frame_done"}

\* the ids of the first i records applied
IdsUpTo(i) == { log[k].t.id : k \in 1 .. i }

C12_SnapshotIndependent ==
    [][ /\ (upc = "snap_locked" /\ upc' = "paint") => snapshot' = drones
        /\ lpc' # lpc => UNCHANGED <<snapshot, snap>>
        /\ store' # store => UNCHANGED <<snapshot, snap>>
        /\ upc' # upc => UNCHANGED store ]_vars

\* a frame holding a snapshot of a drone that the listener has updated since
C12_Witness ==
    /\ SnapshotTaken
    /\ Quiet
    /\ \E id \in DOMAIN snapshot : drones[id] # snapshot[id]

(* -------------------------------- C13 ---------------------------------- *)

\* a magnitude above every finite difference of two f32
Beyond == 2 * F32_MAX + 1

\* raw - smoothed as a real number, the infinities lying beyond every finite
\* difference
Gap(raw, smoothed) ==
    IF smoothed = POS_INF THEN 0 - Beyond
    ELSE IF smoothed = NEG_INF THEN Beyond
    ELSE raw - smoothed

Abs(v) == IF v < 0 THEN 0 - v ELSE v

Sign(v) == IF v < 0 THEN 0 - 1 ELSE IF v > 0 THEN 1 ELSE 0

\* an update moves the smoothed coordinate from s to s2 towards raw: not
\* farther from it and not past it
Towards(raw, s, s2) ==
    /\ s2 # NAN
    /\ Abs(Gap(raw, s2)) <= Abs(Gap(raw, s))
    /\ Sign(Gap(raw, s2)) \in {0, Sign(Gap(raw, s))}

\* C13 as stated: when a raw value is fed for an id, the update leaves
\* |raw - smoothed| no larger than it was and (raw - smoothed) on the same
\* side.  The smoothed position before the update is the last point of the
\* trail, the one after it is in the entity when the point is about to be
\* pushed
C13_SmoothingConverges ==
    (lpc = "push" /\ drones[T.id].trail # <<>>) =>
        LET d == drones[T.id]
            last == d.trail[Len(d.trail)]
        IN /\ Towards(d.x, last[1], d.smoothed_x)
           /\ Towards(d.y, last[2], d.smoothed_y)

(* -------------------------------- C14 ---------------------------------- *)

\* C14: an update sets the last_seen of its entity to the time of receipt,
\* and the last_seen of an entity never decreases
C14_LastSeenMonotonic ==
    [][ /\ (lpc = "raw_rest" /\ lpc' = "ema") => drones'[T.id].last_seen = now
        /\ \A id \in DOMAIN drones :
              /\ id \in DOMAIN drones'
              /\ drones'[id].last_seen >= drones[id].last_seen ]_vars

\* an entity updated a second time, later than the first
C14_Witness ==
    /\ Quiet
    /\ \E id \in DOMAIN drones :
          /\ Len(RecordsUpTo(id, Len(log))) >= 2
          /\ Len(drones[id].trail) = 2
          /\ drones[id].trail[1][3] < drones[id].last_seen

(* -------------------------------- C15 ---------------------------------- *)

\* the raw fields of d are those of the record t
RawFieldsOf(d, t) ==
    /\ d.x = t.x
    /\ d.y = t.y
    /\ d.z = t.z
    /\ d.battery = t.battery
    /\ d.status = t.status
    /\ d.last_ts_ms = t.ts_ms

\* C15: between updates the raw fields of every entity are those of the
\* last record applied with its id; the steps of an update change no entity
\* but the one of its record, and no other step changes the map
C15_LastWriteWins ==
    /\ [](Quiet =>
            \A id \in DOMAIN drones :
               LET rs == RecordsUpTo(id, Len(log))
               IN Len(rs) > 0 /\ RawFieldsOf(drones[id], rs[Len(rs)]))
    /\ [][ IF lpc \in UpdatePcs
           THEN \A id \in DOMAIN drones \ {T.id} :
                   id \in DOMAIN drones' /\ drones'[id] = drones[id]
           ELSE drones' = drones ]_vars

\* two entities between updates, one of them updated twice with different
\* records and the other still as its only record left it
C15_Witness ==
    /\ Quiet
    /\ Len(log) = 3
    /\ DOMAIN drones = {1, 2}
    /\ Len(RecordsUpTo(1, 3)) = 2
    /\ log[1].t.id = 1
    /\ log[2].t.id = 2
    /\ log[3].t # log[1].t
    /\ drones[2].x # drones[1].x

(* -------------------------------- C16 ---------------------------------- *)

\* the positions where the UI thread holds the guard
UiLocked == {"top_locked", "snap_locked", "hud_locked", "sheet_locked"}

\* the positions where the UI thread asks for the lock
UiWaits == upc \in {"top", "snap", "hud"} \/ (upc = "sheet" /\ selected # {})

\* C16: the listener holds the lock exactly during an update and the UI
\* exactly during a copy, which is one step; a thread takes the lock only
\* when it is free; whoever holds the lock releases it; a decoded record
\* waiting for the lock is applied, and every read of the UI waiting for
\* the lock gets it and returns
C16_LockProgress ==
    /\ [](mutex = "listener" <=> lpc \in UpdatePcs)
    /\ [](mutex = "ui" <=> upc \in UiLocked)
    /\ [][mutex' # mutex => (mutex = "free" \/ mutex' = "free")]_vars
    /\ [][(mutex = "ui" /\ upc' # upc) => mutex' = "free"]_vars
    /\ (mutex # "free") ~> (mutex = "free")
    /\ (lpc = "lock") ~> (lpc = "count")
    /\ UiWaits ~> (mutex = "ui")
    /\ (upc = "snap") ~> (upc = "paint")

\* the UI asks for the lock to read the selected drone for the sheet while
\* the listener is in an update
C16_Witness ==
    /\ upc = "sheet"
    /\ selected # {}
    /\ mutex = "listener"
    /\ lpc = "ema"

(* -------------------------------- C17 ---------------------------------- *)

\* the timestamps a producer may put in a record
TsValues == {0, 1000, 1200}

\* the map without what it stores of the producers' timestamps
Erased(ds) == [i \in DOMAIN ds |-> [ds[i] EXCEPT !.last_ts_ms = 0]]

\* the step the listener takes at position pc of an update, as a function of
\* the map ds, the record t and the clock clk: the map and the position
\* after the step
UpdateStep(pc, ds, t, clk) ==
    CASE pc = "entry" ->
           [drones |-> IF t.id \in DOMAIN ds THEN ds
                       ELSE Put(ds, t.id,
                                DroneState(t.x, t.y, t.z, t.battery, t.status,
                                           t.ts_ms, clk, t.x, t.y, <<>>)),
            lpc |-> "raw_pos"]
      [] pc = "raw_pos" ->
           [drones |-> [ds EXCEPT ![t.id].x = t.x, ![t.id].y = t.y, ![t.id].z = t.z],
            lpc |-> "raw_rest"]
      [] pc = "raw_rest" ->
           [drones |-> [ds EXCEPT ![t.id].battery = t.battery,
                                  ![t.id].status = t.status,
                                  ![t.id].last_ts_ms = t.ts_ms,
                                  ![t.id].last_seen = clk],
            lpc |-> "ema"]
      [] pc = "ema" ->
           [drones |-> [ds EXCEPT
                          ![t.id].smoothed_x = Ema(ds[t.id].smoothed_x, ds[t.id].x),
                          ![t.id].smoothed_y = Ema(ds[t.id].smoothed_y, ds[t.id].y)],
            lpc |-> "push"]
      [] pc = "push" ->
           [drones |-> [ds EXCEPT ![t.id].trail =
                          Append(@, <<ds[t.id].smoothed_x, ds[t.id].smoothed_y, clk>>)],
            lpc |-> "prune_size"]
      [] pc = "prune_size" ->
           IF Len(ds[t.id].trail) > TRAIL_MAX_POINTS
           THEN [drones |-> [ds EXCEPT ![t.id].trail = Tail(@)], lpc |-> "prune_size"]
           ELSE [drones |-> ds, lpc |-> "prune_age"]
      [] pc = "prune_age" ->
           IF /\ ds[t.id].trail # <<>>
              /\ clk - Head(ds[t.id].trail)[3] > TRAIL_MAX_AGE
           THEN [drones |-> [ds EXCEPT ![t.id].trail = Tail(@)], lpc |-> "prune_age"]
           ELSE [drones |-> ds, lpc |-> "count"]
      [] pc = "count" ->
           [drones |-> ds, lpc |-> "recv"]

\* a step of an update that is UpdateStep and reads no timestamp
UpdateIgnoresTs ==
    /\ drones' = UpdateStep(lpc, drones, T, now).drones
    /\ lpc' = UpdateStep(lpc, drones, T, now).lpc
    /\ \A ts \in TsValues :
          LET other == UpdateStep(lpc, Erased(drones), [T EXCEPT !.ts_ms = ts], now)
          IN /\ Erased(other.drones) = Erased(drones')
             /\ other.lpc = lpc'
    /\ lpc = "count" => (total_packets' = total_packets + 1 /\ last_packet_at' = {now})
    /\ lpc # "count" => (total_packets' = total_packets /\ last_packet_at' = last_packet_at)

\* C17: ts_ms flows into last_ts_ms and nowhere else.  Every step that
\* moves the listener or the store during an update is the function UpdateStep of the map, the record and the clock,
\* and whatever timestamp the record carries and whatever timestamps the
\* map stores, that function gives the same position and the same map up to
\* last_ts_ms: the same entities, raw fields, smoothed positions, trails,
\* evictions and last_seen, from which staleness is computed; the counters
\* are advanced without reading the record
C17_TimestampFlowsNowhere ==
    [][(lpc \in UpdatePcs /\ <<lpc, store>>' # <<lpc, store>>) => UpdateIgnoresTs]_vars

\* an update under way for an entity that has already taken records with
\* two different timestamps
C17_Witness ==
    /\ lpc = "ema"
    /\ \E i \in 1 .. Len(log) :
          /\ log[i].t.id = T.id
          /\ log[i].t.ts_ms # T.ts_ms
          /\ drones[T.id].last_ts_ms = T.ts_ms

(* -------------------------------- C18 ---------------------------------- *)

\* C18 as stated: as long as every raw x and y received is finite, the
\* smoothed x and y of every entity are finite
C18_SmoothedStaysFinite ==
    (\A i \in 1 .. Len(log) : IsFinite(log[i].t.x) /\ IsFinite(log[i].t.y)) =>
        \A id \in DOMAIN drones :
           (IsFinite(drones[id].x) /\ IsFinite(drones[id].y)) =>
               (IsFinite(drones[id].smoothed_x) /\ IsFinite(drones[id].smoothed_y))

(* -------------------------------- C19 ---------------------------------- *)

\* the positions where the UI thread draws from what it has copied
UiDrawing == {"paint", "hud_draw", "sheet_draw"}

\* C19: the UI holds the lock only at a copy, and never while it paints the
\* canvas or draws the HUD or the sheet
C19_NoDrawingUnderLock ==
    /\ mutex = "ui" => upc \in UiLocked
    /\ upc \in UiDrawing => mutex # "ui"
    /\ (upc = "paint" /\ todo # {}) => mutex # "ui"

\* the UI in its paint loop with a drone yet to paint while the listener,
\* holding the lock, applies a record
C19_Witness ==
    /\ upc = "paint"
    /\ todo # {}
    /\ mutex = "listener"
    /\ lpc = "push"

(* -------------------------------- C20 ---------------------------------- *)

\* record k is the last one for id among the first i records of the log
IsLastOf(id, k, i) ==
    /\ k <= i
    /\ log[k].t.id = id
    /\ \A j \in k + 1 .. i : log[j].t.id # id

\* C20: the map of a snapshot is the map of the store at one instant: for
\* some i it holds exactly the entities of the first i records applied, each
\* as the completed update for its last record among those i left it, so no
\* entity is newer or older than that instant; and that instant is not
\* before the frame began, when the top bar counted top[2] records
C20_SnapshotAtOneInstant ==
    SnapshotTaken =>
        \E i \in top[2] .. Len(log) :
           /\ DOMAIN snapshot = IdsUpTo(i)
           /\ \A id \in DOMAIN snapshot :
                 \E k \in 1 .. i :
                    IsLastOf(id, k, i) /\ CompletedAs(snapshot[id], id, k)

\* a frame painting the map as it was after the first record while the store
\* holds a second entity
C20_Witness ==
    /\ SnapshotTaken
    /\ Quiet
    /\ Len(log) = 2
    /\ DOMAIN drones = {1, 2}
    /\ DOMAIN snapshot = {log[1].t.id}

(* -------------------------------- C21 ---------------------------------- *)

\* the receive instants of a trail never decrease from head to tail
TimeOrdered(trail) ==
    \A i \in 1 .. Len(trail) - 1 : trail[i][3] <= trail[i + 1][3]

\* C21: the instants of every trail are non-decreasing from head to tail.  A
\* new entity starts with an empty trail; the one step of an update that
\* lengthens a trail appends one point, stamped with the clock, at the tail
\* of the trail of its entity; the steps that follow it in the update each
\* drop the head of that trail, and no other step changes a trail: the trail
\* an update leaves is a suffix of the old trail followed by the new point
C21_TrailAppendOnly ==
    /\ [](\A id \in DOMAIN drones : TimeOrdered(drones[id].trail))
    /\ [][ \A id \in DOMAIN drones' :
              IF id \notin DOMAIN drones THEN drones'[id].trail = <<>>
              ELSE \/ drones'[id].trail = drones[id].trail
                   \/ /\ lpc = "push"
                      /\ lpc' = "prune_size"
                      /\ id = T.id
                      /\ drones'[id].trail =
                            Append(drones[id].trail,
                                   <<drones[id].smoothed_x, drones[id].smoothed_y, now>>)
                   \/ /\ lpc \in {"prune_size", "prune_age"}
                      /\ lpc' = lpc
                      /\ id = T.id
                      /\ drones[id].trail # <<>>
                      /\ drones'[id].trail = Tail(drones[id].trail) ]_vars

\* an entity between updates whose trail has lost its oldest point and holds
\* two points received at different instants
C21_Witness ==
    /\ Quiet
    /\ \E id \in DOMAIN drones :
          /\ Len(PointsUpTo(id, Len(log))) = 3
          /\ Len(drones[id].trail) = 2
          /\ drones[id].trail[1][3] < drones[id].trail[2][3]

(* -------------------------------- C22 ---------------------------------- *)

\* the update under way has yet to push the point of drone id
BeforePush(id) ==
    /\ lpc \in {"entry", "raw_pos", "raw_rest", "ema", "push"}
    /\ id = T.id

\* C22 as stated: once an update has pushed its point, and from then on
\* until the next update for the id, the trail of the entity is not empty
\* and its last point is the current smoothed position with an instant not
\* earlier than last_seen: neither eviction of the update removes the point
\* it appended
C22_TrailEndsAtCurrent ==
    \A id \in DOMAIN drones :
       ~BeforePush(id) =>
           LET d == drones[id]
           IN /\ d.trail # <<>>
              /\ d.trail[Len(d.trail)][1] = d.smoothed_x
              /\ d.trail[Len(d.trail)][2] = d.smoothed_y
              /\ d.trail[Len(d.trail)][3] >= d.last_seen

====
